---- MODULE Spec2Model ----
(***************************************************************************)
(* ChaosLab backend: the experiment lifecycle of backend/main.py together  *)
(* with the parts of E2BManager, GroqAnalyzer and GrafanaClient it drives. *)
(*                                                                         *)
(* Python dicts are functions whose DOMAIN is the set of keys present.     *)
(* Python's None is the record None.  Percentages are kept in hundredths   *)
(* of a percent (round(x, 2) resolution), so 80% is Pct(80) = 8000.        *)
(***************************************************************************)
EXTENDS Integers, Sequences, FiniteSets, TLC

\* ------------------------------------------------------------- bounds
\* number of start_experiment requests served
MaxExperiments == 2
\* size of the space uuid4().hex[:8] draws from (16^8 in the program)
NumIds == 2

\* ------------------------------------------------- program constants
max_retries == 3
HighErrors == 10
MediumErrors == 5
HighPct == 80
MediumPct == 60

\* ------------------------------------------------------ dict helpers
None == [py |-> "None"]

Put(d, k, v) == [x \in (DOMAIN d) \cup {k} |-> IF x = k THEN v ELSE d[x]]

Get(d, k, default) == IF k \in DOMAIN d THEN d[k] ELSE default

EmptyDict == [x \in {} |-> None]

Pct(n) == n * 100

\* ------------------------------------------------------------ models.py
PENDING == "pending"
RUNNING == "running"
ANALYZING == "analyzing"
COMPLETED == "completed"
FAILED == "failed"

ExperimentStatus == {PENDING, RUNNING, ANALYZING, COMPLETED, FAILED}

\* ids drawn by uuid4().hex[:8]
ExperimentIds == 1..NumIds

\* the requests the HTTP layer lets through (ChaosScenario, ExperimentConfig)
Requests ==
  { [scenario |-> "network_delay", config |-> [duration |-> 10, intensity |-> "medium"]] }

Msg(text) == [text |-> text]

\* messages of the exceptions the sandbox SDK raises
SandboxErrors == {Msg("command timed out")}

\* messages of the exceptions the analysis and dashboard clients raise
ProviderErrors == {Msg("connection refused")}

\* an optional number that is present (None when absent)
Num(n) == [val |-> n]

\* Python truthiness of an optional number
Truthy(v) == v # None /\ v.val # 0

Exc(msg) == [exception |-> msg]

\* str(e)
Str(e) == e.exception

\* settings.grafana_mcp_url; slash: whether it ends with '/'
GrafanaMcpUrl == [host |-> "http://localhost:8000", slash |-> FALSE]

\* a JSON value that is a string, not an object
JsonStr(s) == [json_string |-> s]

IsDict(v) == v # None /\ "json_string" \notin DOMAIN v

\* ExperimentMetrics: the fields without a default
RequiredMetricKeys == {"cpu_peak", "memory_peak", "error_count"}

\* whether ExperimentMetrics(**d) validates
ExperimentMetricsValid(d) == IsDict(d) /\ RequiredMetricKeys \subseteq DOMAIN d

ExperimentMetrics(d) ==
  [cpu_peak |-> d["cpu_peak"],
   memory_peak |-> d["memory_peak"],
   error_count |-> d["error_count"],
   recovery_time_seconds |-> Get(d, "recovery_time_seconds", Num(0)),
   latency_p95 |-> Get(d, "latency_p95", None)]

\* ------------------------------------------------------- e2b_manager.py
NewManager == [sandbox |-> None]

\* the Sandbox object the provider hands out; n: the provider's id for it
Sandbox(n) == [sandbox_id |-> n]

\* what one attempt does: the constructor returns a sandbox, or raises; for
\* an attempt that raises, kill_ok is whether the kill() of a handle the
\* manager still holds would return
AttemptOutcomes ==
  {[ok |-> TRUE]}
  \cup {[ok |-> FALSE, error |-> Exc(m), kill_ok |-> k] :
          m \in SandboxErrors, k \in BOOLEAN}

\* 2 ** n
RECURSIVE Pow2(_)
Pow2(n) == IF n = 0 THEN 1 ELSE 2 * Pow2(n - 1)

\* create_sandbox from attempt number `attempt` on; outs[i+1] is what the
\* provider answers to attempt i, n the id of the sandbox it would hand out.
\* waits: the sleeps made, in order; kills: the handles kill() was called
\* on, in order. A kill that raises is swallowed by the bare except of
\* lines 41-44 and the handle is cleared all the same.
RECURSIVE create_sandbox_loop(_, _, _, _, _, _, _)

\* mutant: last_error assigned on the first failure only
create_sandbox_loop_FirstError(mgr, outs, n, attempt, last_error, waits, kills) ==
  IF attempt >= max_retries
  THEN [mgr |-> mgr,
        raised |-> Exc([text |-> "Sandbox creation failed after attempts",
                        attempts |-> max_retries,
                        cause |-> Str(last_error)]),
        value |-> None, attempts |-> attempt, waits |-> waits, kills |-> kills]
  ELSE IF outs[attempt + 1].ok
  THEN [mgr |-> [mgr EXCEPT !.sandbox = Sandbox(n)],
        raised |-> None,
        value |-> Sandbox(n).sandbox_id,
        attempts |-> attempt + 1, waits |-> waits, kills |-> kills]
  ELSE create_sandbox_loop(
         [mgr EXCEPT !.sandbox = None],
         outs, n, attempt + 1,
         IF last_error = None THEN outs[attempt + 1].error ELSE last_error,
         IF attempt < max_retries - 1 THEN Append(waits, Pow2(attempt)) ELSE waits,
         IF mgr.sandbox # None THEN Append(kills, mgr.sandbox) ELSE kills)

\* mutant: the test of line 47 left out, so every failure is followed by a sleep
create_sandbox_loop_AlwaysWaits(mgr, outs, n, attempt, last_error, waits, kills) ==
  IF attempt >= max_retries
  THEN [mgr |-> mgr,
        raised |-> Exc([text |-> "Sandbox creation failed after attempts",
                        attempts |-> max_retries,
                        cause |-> Str(last_error)]),
        value |-> None, attempts |-> attempt, waits |-> waits, kills |-> kills]
  ELSE IF outs[attempt + 1].ok
  THEN [mgr |-> [mgr EXCEPT !.sandbox = Sandbox(n)],
        raised |-> None,
        value |-> Sandbox(n).sandbox_id,
        attempts |-> attempt + 1, waits |-> waits, kills |-> kills]
  ELSE create_sandbox_loop(
         [mgr EXCEPT !.sandbox = None],
         outs, n, attempt + 1,
         outs[attempt + 1].error,
         Append(waits, Pow2(attempt)),
         IF mgr.sandbox # None THEN Append(kills, mgr.sandbox) ELSE kills)

\* mutant: the exception of the kill of lines 41-44 not caught
create_sandbox_loop_KillUncaught(mgr, outs, n, attempt, last_error, waits, kills) ==
  IF attempt >= max_retries
  THEN [mgr |-> mgr,
        raised |-> Exc([text |-> "Sandbox creation failed after attempts",
                        attempts |-> max_retries,
                        cause |-> Str(last_error)]),
        value |-> None, attempts |-> attempt, waits |-> waits, kills |-> kills]
  ELSE IF outs[attempt + 1].ok
  THEN [mgr |-> [mgr EXCEPT !.sandbox = Sandbox(n)],
        raised |-> None,
        value |-> Sandbox(n).sandbox_id,
        attempts |-> attempt + 1, waits |-> waits, kills |-> kills]
  ELSE IF mgr.sandbox # None /\ ~outs[attempt + 1].kill_ok
  THEN [mgr |-> mgr,
        raised |-> Exc(Msg("sandbox not found")),
        value |-> None, attempts |-> attempt + 1, waits |-> waits,
        kills |-> Append(kills, mgr.sandbox)]
  ELSE create_sandbox_loop(
         [mgr EXCEPT !.sandbox = None],
         outs, n, attempt + 1,
         outs[attempt + 1].error,
         IF attempt < max_retries - 1 THEN Append(waits, Pow2(attempt)) ELSE waits,
         IF mgr.sandbox # None THEN Append(kills, mgr.sandbox) ELSE kills)

\* lines 21-54
create_sandbox_loop(mgr, outs, n, attempt, last_error, waits, kills) ==
  IF attempt >= max_retries
  THEN [mgr |-> mgr,
        raised |-> Exc([text |-> "Sandbox creation failed after attempts",
                        attempts |-> max_retries,
                        cause |-> Str(last_error)]),
        value |-> None, attempts |-> attempt, waits |-> waits, kills |-> kills]
  ELSE IF outs[attempt + 1].ok
  THEN [mgr |-> [mgr EXCEPT !.sandbox = Sandbox(n)],
        raised |-> None,
        value |-> Sandbox(n).sandbox_id,
        attempts |-> attempt + 1, waits |-> waits, kills |-> kills]
  ELSE create_sandbox_loop(
         [mgr EXCEPT !.sandbox = None],
         outs, n, attempt + 1,
         outs[attempt + 1].error,
         IF attempt < max_retries - 1 THEN Append(waits, Pow2(attempt)) ELSE waits,
         IF mgr.sandbox # None THEN Append(kills, mgr.sandbox) ELSE kills)

create_sandbox(mgr, outs, n) ==
  create_sandbox_loop(mgr, outs, n, 0, None, << >>, << >>)

\* deploy_test_app: out.fail is None or the exception of the first failing
\* install/write/start command; out.probe is the health probe's outcome,
\* which is logged only.
DeployOutcomes ==
  {[fail |-> f, probe |-> p] :
     f \in {None} \cup {Exc(m) : m \in SandboxErrors},
     p \in {"healthy", "unhealthy", "raise"}}

\* mutant: the guard of lines 58-59 left out; the first command then fails on
\* the missing handle
deploy_test_app_Unguarded(mgr, out) ==
  IF mgr.sandbox = None
  THEN [raised |-> Exc(Msg("'NoneType' object has no attribute 'commands'")),
        sandbox_used |-> TRUE]
  ELSE IF out.fail # None THEN [raised |-> out.fail, sandbox_used |-> TRUE]
  ELSE [raised |-> None, sandbox_used |-> TRUE]

\* mutant: the health probe outside its own try, and a missing marker raised
deploy_test_app_ProbeFatal(mgr, out) ==
  IF mgr.sandbox = None
  THEN [raised |-> Exc(Msg("Sandbox not created")), sandbox_used |-> FALSE]
  ELSE IF out.fail # None THEN [raised |-> out.fail, sandbox_used |-> TRUE]
  ELSE IF out.probe = "raise"
  THEN [raised |-> Exc(Msg("command timed out")), sandbox_used |-> TRUE]
  ELSE IF out.probe = "unhealthy"
  THEN [raised |-> Exc(Msg("health check failed")), sandbox_used |-> TRUE]
  ELSE [raised |-> None, sandbox_used |-> TRUE]

\* sandbox_used: whether a command or file write was issued on the sandbox.
\* The probe of lines 92-100 runs in a try of its own and only chooses the
\* line that is logged.
deploy_test_app(mgr, out) ==
  IF mgr.sandbox = None
  THEN [raised |-> Exc(Msg("Sandbox not created")), sandbox_used |-> FALSE]
  ELSE IF out.fail # None THEN [raised |-> out.fail, sandbox_used |-> TRUE]
  ELSE [raised |-> None, sandbox_used |-> TRUE]

\* the two-point timeline substituted for an empty one
PlaceholderTimeline ==
  << [time_offset |-> 0, cpu |-> Pct(5), memory |-> Pct(20), error_count |-> 0],
     [time_offset |-> 30, cpu |-> Pct(10), memory |-> Pct(25), error_count |-> 0] >>

\* the text of a log file: how often it holds "ERROR" and "Exception"
LogText(errors, exceptions) == [ERROR |-> errors, Exception |-> exceptions]

\* logs.count(marker)
Count(logs, marker) == logs[marker]

\* a comma-separated field: the text of an integer literal, of a decimal
\* literal (val in hundredths), or text that is no number
IntField(n) == [kind |-> "int", val |-> n]

DecField(h) == [kind |-> "dec", val |-> h]

TextField(t) == [kind |-> "text", text |-> t]

\* whether int(field) and float(field) return rather than raise ValueError
IntParses(field) == field.kind = "int"

FloatParses(field) == field.kind \in {"int", "dec"}

\* int(field)
IntOf(field) == field.val

\* float(field), in hundredths
FloatOf(field) == IF field.kind = "int" THEN field.val * 100 ELSE field.val

\* mutant: the latest value kept instead of the larger one
Max_Latest(a, b) ==
  b

\* max(a, b)
Max(a, b) ==
  IF b > a THEN b ELSE a

\* a line of the CSV is the sequence of its fields, << >> a blank line
HeaderLine ==
  << TextField("time_offset"), TextField("cpu_percent"),
     TextField("memory_percent"), TextField("error_count") >>

\* lines 267-271: the locals before the loop
NoSamples ==
  [timeline |-> << >>, cpu_peak |-> 0, memory_peak |-> 0, error_count |-> 0,
   recovery_time |-> None]

\* lines 276-308: the body of the loop for one line
ParseLine(acc, line) ==
  IF line = << >> THEN acc
  ELSE IF Len(line) < 4 THEN acc
  ELSE IF ~IntParses(line[1]) \/ ~FloatParses(line[2])
          \/ ~FloatParses(line[3]) \/ ~IntParses(line[4])
  THEN acc
  ELSE LET time_offset == IntOf(line[1])
           cpu == FloatOf(line[2])
           memory == FloatOf(line[3])
           errors == IntOf(line[4])
           timeline == Append(acc.timeline,
                              [time_offset |-> time_offset, cpu |-> cpu,
                               memory |-> memory, error_count |-> errors])
       IN [timeline |-> timeline,
           cpu_peak |-> Max(acc.cpu_peak, cpu),
           memory_peak |-> Max(acc.memory_peak, memory),
           error_count |-> Max(acc.error_count, errors),
           recovery_time |->
             IF /\ acc.recovery_time = None
                /\ time_offset > 10
                /\ cpu < Pct(30)
                /\ memory < Pct(50)
                /\ timeline[Len(timeline)].cpu > Pct(50)
             THEN Num(time_offset)
             ELSE acc.recovery_time]

RECURSIVE ParseLines(_, _)

\* mutant: a line that does not parse ends the loop
ParseLines_Break(lines, acc) ==
  IF lines = << >> THEN acc
  ELSE IF Head(lines) # << >> /\ ParseLine(acc, Head(lines)) = acc THEN acc
  ELSE ParseLines(Tail(lines), ParseLine(acc, Head(lines)))

\* line 275: for line in lines[...]
ParseLines(lines, acc) ==
  IF lines = << >> THEN acc
  ELSE ParseLines(Tail(lines), ParseLine(acc, Head(lines)))

\* lines 333-343: what the except clause returns
CollectFailed(e, now) ==
  [timeline |-> << [time_offset |-> 0, cpu |-> 0, memory |-> 0, error_count |-> 0] >>,
   cpu_peak |-> 0, memory_peak |-> 0, error_count |-> 0,
   recovery_time_seconds |-> None, logs |-> Str(e), timestamp |-> now]

\* mutant: error_count taken from the sampled counters, not from the log
_collect_timeseries_metrics_Sampled(readback, now) ==
  IF readback.logs.raised # None THEN CollectFailed(readback.logs.raised, now)
  ELSE IF readback.csv.raised # None THEN CollectFailed(readback.csv.raised, now)
  ELSE LET logs == readback.logs.stdout
           parsed == IF readback.csv.stdout # << >>
                     THEN ParseLines(Tail(readback.csv.stdout), NoSamples)
                     ELSE NoSamples
           empty == parsed.timeline = << >>
       IN [timeline |-> IF empty THEN PlaceholderTimeline ELSE parsed.timeline,
           cpu_peak |-> IF empty THEN Pct(10) ELSE parsed.cpu_peak,
           memory_peak |-> IF empty THEN Pct(25) ELSE parsed.memory_peak,
           error_count |-> parsed.error_count,
           recovery_time_seconds |-> parsed.recovery_time,
           logs |-> logs,
           timestamp |-> now]

\* readback.logs and readback.csv: what the two cat commands do, raise or
\* return with a stdout; the stdout of the second is the sequence of the
\* lines of stdout.strip()
_collect_timeseries_metrics(readback, now) ==
  IF readback.logs.raised # None THEN CollectFailed(readback.logs.raised, now)
  ELSE IF readback.csv.raised # None THEN CollectFailed(readback.csv.raised, now)
  ELSE LET logs == readback.logs.stdout
           parsed == IF readback.csv.stdout # << >>
                     THEN ParseLines(Tail(readback.csv.stdout), NoSamples)
                     ELSE NoSamples
           empty == parsed.timeline = << >>
       IN [timeline |-> IF empty THEN PlaceholderTimeline ELSE parsed.timeline,
           cpu_peak |-> IF empty THEN Pct(10) ELSE parsed.cpu_peak,
           memory_peak |-> IF empty THEN Pct(25) ELSE parsed.memory_peak,
           error_count |-> Count(logs, "ERROR") + Count(logs, "Exception"),
           recovery_time_seconds |-> parsed.recovery_time,
           logs |-> logs,
           timestamp |-> now]

\* a CSV row with its four fields
Row(time_offset, cpu, memory, errors) ==
  << IntField(time_offset), DecField(Pct(cpu)), DecField(Pct(memory)),
     IntField(errors) >>

Returned(stdout) == [raised |-> None, stdout |-> stdout]

\* the read-backs of the runs start_experiment is followed through: a run
\* under stress whose log holds 12 error markers, and a run whose first
\* read-back command raises
SampleReadbacks ==
  { [logs |-> Returned(LogText(12, 0)),
     csv |-> Returned(<< HeaderLine, Row(0, 70, 90, 0), Row(15, 20, 30, 0) >>)] }
  \cup { [logs |-> [raised |-> Exc(m), stdout |-> None], csv |-> None] :
            m \in SandboxErrors }

\* what _collect_timeseries_metrics hands back for them
CollectedMetrics(now) ==
  { _collect_timeseries_metrics(readback, now) : readback \in SampleReadbacks }

\* the sandbox calls of run_chaos_script in the order of lines 118-144
ChaosScriptCommands ==
  << "files.write chaos script", "chmod chaos script",
     "files.write monitor script", "chmod monitor script",
     "run monitor script in background", "run chaos script" >>

\* the sandbox calls of _collect_timeseries_metrics, lines 261 and 265
ReadbackCommands == << "cat flask_app.log", "cat metrics_timeseries.csv" >>

\* a call that returned, and one that raised
Ran(command) == [command |-> command, returned |-> TRUE]

Raised(command) == [command |-> command, returned |-> FALSE]

\* run_chaos_script: out.fail is None or the exception of the first failing
\* write/chmod/monitor/chaos command and out.at its place in
\* ChaosScriptCommands; out.readback is what the two read-back commands do
\* and out.metrics what the collection step returns for it
ChaosOutcomes(now) ==
  {[fail |-> Exc(m), at |-> k, readback |-> None, metrics |-> None] :
     m \in SandboxErrors, k \in 1..Len(ChaosScriptCommands)}
  \cup {[fail |-> None, at |-> 0, readback |-> readback,
          metrics |-> _collect_timeseries_metrics(readback, now)] :
           readback \in SampleReadbacks}

\* the sandbox calls run_chaos_script has made when it returns or raises:
\* a raising call ends the try block of lines 110-154, and one in the
\* read-back ends the try block of lines 259-330
CommandsIssued(out) ==
  IF out.fail # None
  THEN [k \in 1..(out.at - 1) |-> Ran(ChaosScriptCommands[k])]
       \o << Raised(ChaosScriptCommands[out.at]) >>
  ELSE [k \in 1..Len(ChaosScriptCommands) |-> Ran(ChaosScriptCommands[k])]
       \o (IF out.readback.logs.raised # None
            THEN << Raised(ReadbackCommands[1]) >>
            ELSE IF out.readback.csv.raised # None
            THEN << Ran(ReadbackCommands[1]), Raised(ReadbackCommands[2]) >>
            ELSE << Ran(ReadbackCommands[1]), Ran(ReadbackCommands[2]) >>)

run_chaos_script(mgr, out) ==
  IF mgr.sandbox = None
  THEN [raised |-> Exc(Msg("Sandbox not created")), value |-> None,
        sandbox_used |-> FALSE, commands |-> << >>]
  ELSE IF out.fail # None
  THEN [raised |-> out.fail, value |-> None, sandbox_used |-> TRUE,
        commands |-> CommandsIssued(out)]
  ELSE [raised |-> None, value |-> out.metrics, sandbox_used |-> TRUE,
        commands |-> CommandsIssued(out)]

\* ChaosScenario's values, the keys of the scripts dict of lines 550-851
KnownScenarios ==
  {"network_delay", "memory_pressure", "disk_full", "process_kill",
   "dependency_failure"}

\* config.get("duration", 60)
DefaultDuration == 60

\* the text of a scenario's script: the scenario's template with the
\* duration interpolated (no template uses the intensity)
ScriptText(template, duration) == [template |-> template, duration |-> duration]

\* mutant: the dict indexed, scripts[scenario], instead of .get with a default
_get_chaos_script_Indexed(scenario, config) ==
  LET duration == Get(config, "duration", DefaultDuration)
      scripts == [name \in KnownScenarios |-> ScriptText(name, duration)]
  IN IF scenario \in DOMAIN scripts
     THEN [raised |-> None, value |-> scripts[scenario]]
     ELSE [raised |-> Exc(Msg("KeyError")), value |-> None]

\* lines 545-853
_get_chaos_script(scenario, config) ==
  LET duration == Get(config, "duration", DefaultDuration)
      scripts == [name \in KnownScenarios |-> ScriptText(name, duration)]
  IN [raised |-> None, value |-> Get(scripts, scenario, scripts["network_delay"])]

\* mutant: the exception of sandbox.kill() not caught
cleanup_Raises(mgr, kill_ok) ==
  IF mgr.sandbox # None /\ kill_ok
  THEN [raised |-> None, mgr |-> [mgr EXCEPT !.sandbox = None]]
  ELSE IF mgr.sandbox # None
  THEN [raised |-> Exc(Msg("sandbox not found")), mgr |-> mgr]
  ELSE [raised |-> None, mgr |-> mgr]

\* cleanup: kill_ok is whether sandbox.kill() returns; a raising kill is
\* logged and the handle kept
cleanup(mgr, kill_ok) ==
  IF mgr.sandbox # None /\ kill_ok
  THEN [raised |-> None, mgr |-> [mgr EXCEPT !.sandbox = None]]
  ELSE [raised |-> None, mgr |-> mgr]

\* sum(values)
RECURSIVE Sum(_)
Sum(values) == IF values = << >> THEN 0 ELSE Head(values) + Sum(Tail(values))

\* round(num / den) for num >= 0: to the nearest integer, a tie to the even one
Round(num, den) ==
  LET q == num \div den
      r == num % den
  IN IF 2 * r < den THEN q
     ELSE IF 2 * r > den THEN q + 1
     ELSE IF q % 2 = 0 THEN q ELSE q + 1

\* round(sum(values) / len(values), 2) for values in hundredths, and
\* round(sum(values) / len(values)) for integers
Mean(values) == Round(Sum(values), Len(values))

\* mutant: a run without a sample at index i counted as a sample of zeros
AveragedPoint_AllRuns(all, i) ==
  LET Has(m) == i <= Len(Get(m, "timeline", << >>))
      with == SelectSeq(all, Has)
      Of(field) == [k \in 1..Len(all) |->
                      IF Has(all[k]) THEN all[k]["timeline"][i][field] ELSE 0]
  IN [time_offset |-> with[1]["timeline"][i]["time_offset"],
      cpu |-> Mean(Of("cpu")),
      memory |-> Mean(Of("memory")),
      error_count |-> Mean(Of("error_count"))]

\* lines 437-460: the averaged point at index i (from 1)
AveragedPoint(all, i) ==
  LET Has(m) == i <= Len(Get(m, "timeline", << >>))
      with == SelectSeq(all, Has)
      Of(field) == [k \in 1..Len(with) |-> with[k]["timeline"][i][field]]
  IN [time_offset |-> with[1]["timeline"][i]["time_offset"],
      cpu |-> Mean(Of("cpu")),
      memory |-> Mean(Of("memory")),
      error_count |-> Mean(Of("error_count"))]

\* max(len(m.get("timeline", [])) for m in all_metrics)
MaxTimelineLength(all) ==
  CHOOSE n \in {Len(Get(all[k], "timeline", << >>)) : k \in 1..Len(all)} :
    \A k \in 1..Len(all) : Len(Get(all[k], "timeline", << >>)) <= n

\* mutant: the peaks of the first collected run instead of the mean of peaks
_average_metrics_FirstPeak(all) ==
  IF all = << >> THEN EmptyDict
  ELSE [timeline |-> [i \in 1..MaxTimelineLength(all) |-> AveragedPoint(all, i)],
        cpu_peak |-> Get(all[1], "cpu_peak", 0),
        memory_peak |-> Get(all[1], "memory_peak", 0),
        error_count |-> Mean([k \in 1..Len(all) |-> Get(all[k], "error_count", 0)]),
        recovery_time_seconds |-> None,
        logs |-> [k \in 1..Len(all) |-> Get(all[k], "logs", LogText(0, 0))],
        timestamp |-> Get(all[1], "timestamp", None),
        num_instances |-> Len(all)]

\* logs: the instances' logs in the order of all_metrics
_average_metrics(all) ==
  IF all = << >> THEN EmptyDict
  ELSE [timeline |-> [i \in 1..MaxTimelineLength(all) |-> AveragedPoint(all, i)],
        cpu_peak |-> Mean([k \in 1..Len(all) |-> Get(all[k], "cpu_peak", 0)]),
        memory_peak |-> Mean([k \in 1..Len(all) |-> Get(all[k], "memory_peak", 0)]),
        error_count |-> Mean([k \in 1..Len(all) |-> Get(all[k], "error_count", 0)]),
        recovery_time_seconds |-> None,
        logs |-> [k \in 1..Len(all) |-> Get(all[k], "logs", LogText(0, 0))],
        timestamp |-> Get(all[1], "timestamp", None),
        num_instances |-> Len(all)]

\* mutant: run_single_instance without its try/except
run_single_instance_except_Propagates(e) ==
  [raised |-> e, value |-> None]

\* lines 403-405: what run_single_instance does with an exception
run_single_instance_except(e) ==
  [raised |-> None, value |-> None]

\* ------------------------------------------------------ groq_analyzer.py
FallbackRecommendations ==
  << "Implement retry logic with exponential backoff",
     "Add circuit breaker pattern for external dependencies",
     "Monitor resource usage and set up alerts",
     "Consider horizontal scaling for high load scenarios" >>

\* mutant: the thresholds compared with >= instead of >
FallbackSeverity_Inclusive(errors, cpu_peak, memory_peak) ==
  IF errors >= HighErrors \/ cpu_peak >= Pct(HighPct) \/ memory_peak >= Pct(HighPct)
  THEN "high"
  ELSE IF errors >= MediumErrors \/ cpu_peak >= Pct(MediumPct)
          \/ memory_peak >= Pct(MediumPct)
  THEN "medium"
  ELSE "low"

\* the severity rule of _fallback_analysis
FallbackSeverity(errors, cpu_peak, memory_peak) ==
  IF errors > HighErrors \/ cpu_peak > Pct(HighPct) \/ memory_peak > Pct(HighPct)
  THEN "high"
  ELSE IF errors > MediumErrors \/ cpu_peak > Pct(MediumPct) \/ memory_peak > Pct(MediumPct)
  THEN "medium"
  ELSE "low"

_fallback_analysis(scenario, metrics) ==
  LET cpu_peak == Get(metrics, "cpu_peak", 0)
      memory_peak == Get(metrics, "memory_peak", 0)
      errors == Get(metrics, "error_count", 0)
      recovery_time == Get(metrics, "recovery_time_seconds", None)
      timeline == Get(metrics, "timeline", <<>>)
  IN [summary |-> [scenario |-> scenario, errors |-> errors,
                   cpu_peak |-> cpu_peak, memory_peak |-> memory_peak,
                   ending |-> IF Truthy(recovery_time)
                              THEN [text |-> "Recovered in", seconds |-> recovery_time]
                              ELSE [text |-> "System remained stable."]],
      metrics |-> [cpu_peak |-> cpu_peak,
                   memory_peak |-> memory_peak,
                   error_count |-> errors,
                   recovery_time_seconds |->
                     IF Truthy(recovery_time) THEN recovery_time ELSE Num(0),
                   latency_p95 |-> None],
      timeline |-> IF timeline # <<>> THEN timeline ELSE PlaceholderTimeline,
      severity |-> FallbackSeverity(errors, cpu_peak, memory_peak),
      recommendations |-> FallbackRecommendations]

\* a JSON object of the required shape, as the provider is asked to return it
WellFormedReply(metrics) ==
  [summary |-> [text |-> "provider narrative"],
   metrics |-> [cpu_peak |-> metrics.cpu_peak,
                memory_peak |-> metrics.memory_peak,
                error_count |-> metrics.error_count,
                recovery_time_seconds |-> None,
                latency_p95 |-> None],
   timeline |-> metrics.timeline,
   severity |-> "medium",
   recommendations |-> << "Move /api/heavy to a background task queue" >>]

\* what client.chat.completions.create can do: raise, or return a message
\* whose content is not JSON, a JSON object of the required shape, a JSON
\* object without "metrics", or one whose "metrics" is not an object
ProviderReplies(metrics) ==
  {[raised |-> Exc(m), content |-> None] : m \in ProviderErrors}
  \cup {[raised |-> None, content |-> c] : c \in
         { [json |-> FALSE, value |-> None],
           [json |-> TRUE, value |-> WellFormedReply(metrics)],
           [json |-> TRUE, value |-> [summary |-> [text |-> "provider narrative"]]],
           [json |-> TRUE, value |-> [summary |-> [text |-> "provider narrative"],
                                     metrics |-> JsonStr("n/a")]] }}

\* json.loads
JsonLoads(content) ==
  IF content.json THEN [raised |-> None, value |-> content.value]
  ELSE [raised |-> Exc(Msg("JSONDecodeError")), value |-> None]

\* mutant: json.loads outside the try, so a decode error propagates
analyze_experiment_Uncaught(scenario, metrics, reply) ==
  IF reply.raised # None
  THEN [raised |-> None, value |-> _fallback_analysis(scenario, metrics)]
  ELSE JsonLoads(reply.content)

\* the try of lines 33-136 with the except of lines 138-141
analyze_experiment(scenario, metrics, reply) ==
  IF reply.raised # None
  THEN [raised |-> None, value |-> _fallback_analysis(scenario, metrics)]
  ELSE LET result == JsonLoads(reply.content)
       IN IF result.raised # None
          THEN [raised |-> None, value |-> _fallback_analysis(scenario, metrics)]
          ELSE [raised |-> None, value |-> result.value]

\* ----------------------------------------------------- grafana_client.py
\* url.rstrip('/')
Rstrip(url) == [url EXCEPT !.slash = FALSE]

GrafanaClient(url) == [url |-> Rstrip(url)]

\* f"{base}/d/chaoslab-{experiment_id}/chaos-experiment-{experiment_id}"
MockUrl(base, experiment_id) ==
  [base |-> base, path |-> "/d/chaoslab-{id}/chaos-experiment-{id}", id |-> experiment_id]

\* what requests.post can do: raise, or answer with a status code (and, on
\* success, a body naming the dashboard's url)
DashboardOutcomes ==
  {[raised |-> Exc(m), status_code |-> 0] : m \in ProviderErrors}
  \cup {[raised |-> None, status_code |-> c] : c \in {200, 201, 500}}

create_dashboard(client, experiment_id, metrics, scenario, out) ==
  IF ~IsDict(metrics)
  THEN \* _build_dashboard_json: metrics.get raises AttributeError
       MockUrl(client.url, experiment_id)
  ELSE IF out.raised # None
  THEN MockUrl(client.url, experiment_id)
  ELSE IF out.status_code \in {200, 201}
  THEN [base |-> client.url, path |-> "/d/uid/created"]
  ELSE None

\* --------------------------------------------------------------- main.py
\* lines 110-117
NewRecord(id, req, created_at) ==
  [id |-> id, scenario |-> req.scenario, config |-> req.config,
   status |-> PENDING, created_at |-> created_at, progress |-> 0]

\* lines 121-122
RecRunning(rec) == Put(Put(rec, "status", RUNNING), "progress", 10)

\* lines 130-131
RecSandboxCreated(rec, sandbox_id) ==
  Put(Put(rec, "sandbox_id", sandbox_id), "progress", 30)

\* mutant: 5 written for 50
RecDeployed_Typo(rec) == Put(rec, "progress", 5)

\* line 136
RecDeployed(rec) == Put(rec, "progress", 50)

\* lines 144-145
RecChaosDone(rec, m) == Put(Put(rec, "progress", 70), "raw_metrics", m)

\* mutant: the status update of line 149 left out
RecAnalyzing_Skipped(rec) == rec

\* line 149
RecAnalyzing(rec) == Put(rec, "status", ANALYZING)

\* lines 157-158
RecAnalyzed(rec, a) == Put(Put(rec, "analysis", a), "progress", 85)

\* mutant: analysis["metrics"] evaluated outside the inner try
PublishDashboard_Uncaught(id, a, scenario, out) ==
  IF ~IsDict(a) \/ "metrics" \notin DOMAIN a
  THEN [raised |-> Exc(Msg("KeyError: 'metrics'")), value |-> None]
  ELSE [raised |-> None,
        value |-> create_dashboard(GrafanaClient(GrafanaMcpUrl), id,
                                   a["metrics"], scenario, out)]

\* lines 162-177: the dashboard step of start_experiment with its own
\* try/except; value is dashboard_url
PublishDashboard(id, a, scenario, out) ==
  IF ~IsDict(a) \/ "metrics" \notin DOMAIN a
  THEN \* analysis["metrics"] raises, caught at line 175
       [raised |-> None, value |-> MockUrl(GrafanaMcpUrl, id)]
  ELSE [raised |-> None,
        value |-> create_dashboard(GrafanaClient(GrafanaMcpUrl), id,
                                   a["metrics"], scenario, out)]

\* lines 179-180
RecDashboard(rec, url) == Put(Put(rec, "grafana_url", url), "progress", 95)

\* lines 187-188
MarkCompleted(rec) == Put(Put(rec, "status", COMPLETED), "progress", 100)

\* lines 192-196
CompletedResponse(rec) ==
  [code |-> 200, experiment_id |-> rec["id"], status |-> COMPLETED,
   created_at |-> rec["created_at"]]

\* mutant: a fixed text stored instead of str(e)
HandleException_Generic(rec, e) ==
  Put(Put(rec, "status", FAILED), "error", Msg("Experiment failed"))

\* lines 198-201: what the except clause does to the record
HandleException(rec, e) == Put(Put(rec, "status", FAILED), "error", Str(e))

\* lines 203-206
FailedResponse(e) ==
  [code |-> 500, detail |-> [prefix |-> "Experiment failed: ", text |-> Str(e)]]

\* mutant: an unknown id answered from a default record
get_experiment_status_Default(store, id) ==
  LET exp == IF id \in DOMAIN store THEN store[id] ELSE [status |-> PENDING]
  IN [code |-> 200, kind |-> "status", experiment_id |-> id,
      status |-> exp["status"],
      progress |-> Get(exp, "progress", 0),
      message |-> Get(exp, "error", None)]

\* lines 209-222
get_experiment_status(store, id) ==
  IF id \notin DOMAIN store
  THEN [code |-> 404, detail |-> "Experiment not found"]
  ELSE LET exp == store[id]
       IN [code |-> 200, kind |-> "status", experiment_id |-> id,
           status |-> exp["status"],
           progress |-> Get(exp, "progress", 0),
           message |-> Get(exp, "error", None)]

\* mutant: readiness decided by the presence of an analysis, not by the status
get_experiment_results_ByAnalysis(store, id) ==
  IF id \notin DOMAIN store
  THEN [code |-> 404, detail |-> "Experiment not found"]
  ELSE LET exp == store[id]
           a == Get(exp, "analysis", EmptyDict)
       IN IF "analysis" \notin DOMAIN exp
          THEN [code |-> 400, detail |-> "Experiment not completed",
                experiment_id |-> id, status |-> exp["status"]]
          ELSE IF ~IsDict(a) \/ ~ExperimentMetricsValid(Get(a, "metrics", EmptyDict))
          THEN [code |-> 500, detail |-> "Internal Server Error", experiment_id |-> id]
          ELSE [code |-> 200, kind |-> "results", experiment_id |-> id,
                summary |-> Get(a, "summary", [text |-> "No summary available"]),
                metrics |-> ExperimentMetrics(a["metrics"]),
                grafana_url |-> Get(exp, "grafana_url", None),
                recommendations |-> Get(a, "recommendations", <<>>),
                severity |-> Get(a, "severity", "unknown"),
                raw_logs |-> Get(Get(exp, "raw_metrics", EmptyDict), "logs", None)]

get_experiment_results(store, id) ==
  IF id \notin DOMAIN store
  THEN [code |-> 404, detail |-> "Experiment not found"]
  ELSE LET exp == store[id]
           a == Get(exp, "analysis", EmptyDict)
       IN IF exp["status"] # COMPLETED
          THEN [code |-> 400, detail |-> "Experiment not completed",
                experiment_id |-> id, status |-> exp["status"]]
          ELSE IF ~IsDict(a) \/ ~ExperimentMetricsValid(Get(a, "metrics", EmptyDict))
          THEN \* ExperimentMetrics(**...) raises: an unhandled error
               [code |-> 500, detail |-> "Internal Server Error", experiment_id |-> id]
          ELSE [code |-> 200, kind |-> "results", experiment_id |-> id,
                summary |-> Get(a, "summary", [text |-> "No summary available"]),
                metrics |-> ExperimentMetrics(a["metrics"]),
                grafana_url |-> Get(exp, "grafana_url", None),
                recommendations |-> Get(a, "recommendations", <<>>),
                severity |-> Get(a, "severity", "unknown"),
                raw_logs |-> Get(Get(exp, "raw_metrics", EmptyDict), "logs", None)]

\* ------------------------------------------------------------------ state
VARIABLES
  experiments,     \* the store: experiment id -> record
  now,             \* datetime.now(), counted in start_experiment requests
  pc,              \* where the start_experiment handler stands ("idle": none runs)
  experiment_id,   \* the handler's experiment_id (0: none yet)
  request,         \* the handler's request
  e2b_manager,     \* the handler's E2BManager
  metrics,         \* the handler's metrics
  analysis,        \* the handler's analysis
  response,        \* the response to the latest request (None while it runs)
  sandbox_alive,   \* whether the sandbox this handler provisioned is alive at the provider
  cleanup_invoked, \* whether the handler has called e2b_manager.cleanup()
  \* an E2BManager driven directly through its methods
  manager,         \* the E2BManager object
  last_call,       \* the latest method call on it, with what it did (None: none yet)
  handed_out,      \* number of sandboxes the provider has handed out to it
  \* a function applied to one input
  args,            \* the input
  result,          \* what the function returned (None: not applied yet)
  \* run_parallel_experiments
  instances,       \* instance number -> where run_single_instance stands, and its locals
  all_metrics,     \* all_metrics, in completion order
  aggregate        \* what run_parallel_experiments returned or raised (None: still running)

lifecycle_vars == << experiments, now, pc, experiment_id, request, e2b_manager,
                     metrics, analysis, response, sandbox_alive, cleanup_invoked >>

manager_vars == << manager, last_call, handed_out >>

function_vars == << args, result >>

parallel_vars == << instances, all_metrics, aggregate >>

unit_vars == << manager_vars, function_vars, parallel_vars >>

vars == << lifecycle_vars, unit_vars >>

\* no request handler has run
LifecycleInit ==
  /\ experiments = EmptyDict
  /\ now = 0
  /\ pc = "idle"
  /\ experiment_id = 0
  /\ request = None
  /\ e2b_manager = None
  /\ metrics = None
  /\ analysis = None
  /\ response = None
  /\ sandbox_alive = FALSE
  /\ cleanup_invoked = FALSE

\* no E2BManager is driven directly
ManagerIdle == manager = None /\ last_call = None /\ handed_out = 0

FunctionIdle == args = None /\ result = None

ParallelIdle == instances = None /\ all_metrics = None /\ aggregate = None

Init == LifecycleInit /\ ManagerIdle /\ FunctionIdle /\ ParallelIdle

\* the handler's record
Rec == experiments[experiment_id]

SetRec(rec) == experiments' = Put(experiments, experiment_id, rec)

\* mutant: the except clause starts the pipeline over instead of giving up
Fail_StartsOver(e) ==
  /\ pc' = "update_status"
  /\ UNCHANGED << experiments, response >>

\* the except clause of start_experiment, lines 198-206
Fail(e) ==
  /\ SetRec(HandleException(Rec, e))
  /\ response' = FailedResponse(e)
  /\ pc' = "idle"

\* lines 105-117: a request arrives while no handler runs
StartExperiment ==
  /\ pc = "idle"
  /\ UNCHANGED unit_vars
  /\ now < MaxExperiments
  /\ \E id \in ExperimentIds, req \in Requests :
       /\ experiments' = Put(experiments, id, NewRecord(id, req, now + 1))
       /\ experiment_id' = id
       /\ request' = req
  /\ now' = now + 1
  /\ pc' = "update_status"
  /\ e2b_manager' = None
  /\ metrics' = None
  /\ analysis' = None
  /\ response' = None
  /\ cleanup_invoked' = FALSE
  /\ sandbox_alive' = FALSE

\* lines 121-125
UpdateStatus ==
  /\ pc = "update_status"
  /\ UNCHANGED unit_vars
  /\ SetRec(RecRunning(Rec))
  /\ e2b_manager' = NewManager
  /\ pc' = "create_sandbox"
  /\ UNCHANGED << now, experiment_id, request, metrics, analysis, response,
                  sandbox_alive, cleanup_invoked >>

\* lines 129-131
CreateSandbox ==
  /\ pc = "create_sandbox"
  /\ UNCHANGED unit_vars
  /\ \E outs \in [1..max_retries -> AttemptOutcomes] :
       LET r == create_sandbox(e2b_manager, outs, now)
       IN /\ e2b_manager' = r.mgr
          /\ IF r.raised # None
             THEN /\ Fail(r.raised)
                  /\ UNCHANGED sandbox_alive
             ELSE /\ SetRec(RecSandboxCreated(Rec, r.value))
                  /\ sandbox_alive' = TRUE
                  /\ pc' = "deploy_test_app"
                  /\ UNCHANGED response
  /\ UNCHANGED << now, experiment_id, request, metrics, analysis, cleanup_invoked >>

\* lines 135-136
DeployTestApp ==
  /\ pc = "deploy_test_app"
  /\ UNCHANGED unit_vars
  /\ \E out \in DeployOutcomes :
       LET r == deploy_test_app(e2b_manager, out)
       IN IF r.raised # None
          THEN Fail(r.raised)
          ELSE /\ SetRec(RecDeployed(Rec))
               /\ pc' = "run_chaos_script"
               /\ UNCHANGED response
  /\ UNCHANGED << now, experiment_id, request, e2b_manager, metrics, analysis,
                  sandbox_alive, cleanup_invoked >>

\* lines 140-145
RunChaosScript ==
  /\ pc = "run_chaos_script"
  /\ UNCHANGED unit_vars
  /\ \E out \in ChaosOutcomes(now) :
       LET r == run_chaos_script(e2b_manager, out)
       IN IF r.raised # None
          THEN /\ Fail(r.raised)
               /\ UNCHANGED metrics
          ELSE /\ metrics' = r.value
               /\ SetRec(RecChaosDone(Rec, r.value))
               /\ pc' = "analyzing"
               /\ UNCHANGED response
  /\ UNCHANGED << now, experiment_id, request, e2b_manager, analysis,
                  sandbox_alive, cleanup_invoked >>

\* line 149
MarkAnalyzing ==
  /\ pc = "analyzing"
  /\ UNCHANGED unit_vars
  /\ SetRec(RecAnalyzing(Rec))
  /\ pc' = "groq_analyzer"
  /\ UNCHANGED << now, experiment_id, request, e2b_manager, metrics, analysis,
                  response, sandbox_alive, cleanup_invoked >>

\* line 151: GroqAnalyzer(...) builds the provider's client, which may raise
ConstructAnalyzer ==
  /\ pc = "groq_analyzer"
  /\ UNCHANGED unit_vars
  /\ \/ /\ pc' = "analyze_experiment"
        /\ UNCHANGED << experiments, response >>
     \/ \E m \in ProviderErrors : Fail(Exc(m))
  /\ UNCHANGED << now, experiment_id, request, e2b_manager, metrics, analysis,
                  sandbox_alive, cleanup_invoked >>

\* lines 152-158
AnalyzeExperiment ==
  /\ pc = "analyze_experiment"
  /\ UNCHANGED unit_vars
  /\ \E reply \in ProviderReplies(metrics) :
       LET r == analyze_experiment(request.scenario, metrics, reply)
       IN IF r.raised # None
          THEN /\ Fail(r.raised)
               /\ UNCHANGED analysis
          ELSE /\ analysis' = r.value
               /\ SetRec(RecAnalyzed(Rec, r.value))
               /\ pc' = "create_dashboard"
               /\ UNCHANGED response
  /\ UNCHANGED << now, experiment_id, request, e2b_manager, metrics,
                  sandbox_alive, cleanup_invoked >>

\* lines 162-180
CreateDashboard ==
  /\ pc = "create_dashboard"
  /\ UNCHANGED unit_vars
  /\ \E out \in DashboardOutcomes :
       LET r == PublishDashboard(experiment_id, analysis, request.scenario, out)
       IN IF r.raised # None
          THEN Fail(r.raised)
          ELSE /\ SetRec(RecDashboard(Rec, r.value))
               /\ pc' = "cleanup"
               /\ UNCHANGED response
  /\ UNCHANGED << now, experiment_id, request, e2b_manager, metrics, analysis,
                  sandbox_alive, cleanup_invoked >>

\* line 184
Cleanup ==
  /\ pc = "cleanup"
  /\ UNCHANGED unit_vars
  /\ cleanup_invoked' = TRUE
  /\ \E kill_ok \in BOOLEAN :
       LET r == cleanup(e2b_manager, kill_ok)
       IN /\ e2b_manager' = r.mgr
          /\ sandbox_alive' = (sandbox_alive /\ r.mgr.sandbox # None)
          /\ IF r.raised # None
             THEN Fail(r.raised)
             ELSE /\ pc' = "completed"
                  /\ UNCHANGED << experiments, response >>
  /\ UNCHANGED << now, experiment_id, request, metrics, analysis >>

\* lines 187-196
Complete ==
  /\ pc = "completed"
  /\ UNCHANGED unit_vars
  /\ SetRec(MarkCompleted(Rec))
  /\ response' = CompletedResponse(Rec)
  /\ pc' = "idle"
  /\ UNCHANGED << now, experiment_id, request, e2b_manager, metrics, analysis,
                  sandbox_alive, cleanup_invoked >>

\* GET /api/experiment/{id}/status, served while no handler runs
GetStatus ==
  /\ pc = "idle"
  /\ UNCHANGED unit_vars
  /\ \E id \in ExperimentIds : response' = get_experiment_status(experiments, id)
  /\ UNCHANGED << experiments, now, pc, experiment_id, request, e2b_manager, metrics,
                  analysis, sandbox_alive, cleanup_invoked >>

\* GET /api/experiment/{id}/results, served while no handler runs
GetResults ==
  /\ pc = "idle"
  /\ UNCHANGED unit_vars
  /\ \E id \in ExperimentIds : response' = get_experiment_results(experiments, id)
  /\ UNCHANGED << experiments, now, pc, experiment_id, request, e2b_manager, metrics,
                  analysis, sandbox_alive, cleanup_invoked >>

Next ==
  \/ StartExperiment
  \/ UpdateStatus
  \/ CreateSandbox
  \/ DeployTestApp
  \/ RunChaosScript
  \/ MarkAnalyzing
  \/ ConstructAnalyzer
  \/ AnalyzeExperiment
  \/ CreateDashboard
  \/ Cleanup
  \/ Complete
  \/ GetStatus
  \/ GetResults

Spec == Init /\ [][Next]_vars

\* the steps of a start_experiment call under way
HandlerStep ==
  \/ UpdateStatus
  \/ CreateSandbox
  \/ DeployTestApp
  \/ RunChaosScript
  \/ MarkAnalyzing
  \/ ConstructAnalyzer
  \/ AnalyzeExperiment
  \/ CreateDashboard
  \/ Cleanup
  \/ Complete

\* the experiments alone: lookups are served only between two handler runs
\* and change nothing but the response
PipelineNext == StartExperiment \/ HandlerStep

\* the handler has no await: once it has started it runs its next statement,
\* and every external call it makes returns or raises
FairSpec == Init /\ [][PipelineNext]_vars /\ WF_vars(HandlerStep)

\* ------------------------------------------- an E2BManager used directly
\* number of sandboxes the provider hands out to the manager
MaxSandboxes == 2

\* messages of the exceptions Sandbox(...) raises
ProvisionErrors == SandboxErrors \cup {Msg("rate limit exceeded")}

ProvisionOutcomes ==
  {[ok |-> TRUE]}
  \cup {[ok |-> FALSE, error |-> Exc(m), kill_ok |-> k] :
          m \in ProvisionErrors, k \in BOOLEAN}

ManagerInit ==
  /\ LifecycleInit
  /\ manager = NewManager
  /\ last_call = None
  /\ handed_out = 0
  /\ FunctionIdle
  /\ ParallelIdle

\* manager.create_sandbox()
MgrCreateSandbox ==
  /\ handed_out < MaxSandboxes
  /\ \E outs \in [1..max_retries -> ProvisionOutcomes] :
       LET r == create_sandbox(manager, outs, handed_out + 1)
       IN /\ manager' = r.mgr
          /\ handed_out' = IF r.raised = None THEN handed_out + 1 ELSE handed_out
          /\ last_call' = [op |-> "create_sandbox", before |-> manager,
                           outs |-> outs, raised |-> r.raised, value |-> r.value,
                           attempts |-> r.attempts, waits |-> r.waits,
                           kills |-> r.kills]
  /\ UNCHANGED << lifecycle_vars, function_vars, parallel_vars >>

\* manager.deploy_test_app()
MgrDeployTestApp ==
  /\ \E out \in DeployOutcomes :
       LET r == deploy_test_app(manager, out)
       IN last_call' = [op |-> "deploy_test_app", before |-> manager,
                        out |-> out,
                        raised |-> r.raised, sandbox_used |-> r.sandbox_used]
  /\ UNCHANGED << manager, handed_out, lifecycle_vars, function_vars, parallel_vars >>

\* manager.run_chaos_script(scenario, config)
MgrRunChaosScript ==
  /\ \E out \in ChaosOutcomes(0) :
       LET r == run_chaos_script(manager, out)
       IN last_call' = [op |-> "run_chaos_script", before |-> manager,
                        raised |-> r.raised, value |-> r.value,
                        sandbox_used |-> r.sandbox_used, commands |-> r.commands]
  /\ UNCHANGED << manager, handed_out, lifecycle_vars, function_vars, parallel_vars >>

\* manager.cleanup()
MgrCleanup ==
  /\ \E kill_ok \in BOOLEAN :
       LET r == cleanup(manager, kill_ok)
       IN /\ manager' = r.mgr
          /\ last_call' = [op |-> "cleanup", before |-> manager,
                           kill_ok |-> kill_ok, raised |-> r.raised]
  /\ UNCHANGED << handed_out, lifecycle_vars, function_vars, parallel_vars >>

ManagerNext ==
  \/ MgrCreateSandbox
  \/ MgrDeployTestApp
  \/ MgrRunChaosScript
  \/ MgrCleanup

ManagerSpec == ManagerInit /\ [][ManagerNext]_vars

\* ------------------------------------ _collect_timeseries_metrics alone
\* number of lines after the header in the sampling file
MaxRows == 3

\* lines the sampling file can hold: samples, a row cut short, a row whose
\* cpu field is empty, a row whose last field is not a number, a blank line
CsvLines ==
  { Row(0, 70, 90, 0), Row(15, 20, 30, 0), Row(20, 15, 25, 3),
    << IntField(15), DecField(Pct(20)), DecField(Pct(30)) >>,
    << IntField(15), TextField(""), DecField(Pct(30)), IntField(0) >>,
    << IntField(25), DecField(Pct(99)), DecField(Pct(99)), TextField("-") >>,
    << >> }

CsvStdouts ==
  { << >>, << << >> >> }
  \cup { << HeaderLine >> \o rows :
           rows \in UNION { [1..n -> CsvLines] : n \in 0..MaxRows } }

Readbacks ==
  { [logs |-> l, csv |-> c] :
      l \in {[raised |-> Exc(m), stdout |-> None] : m \in SandboxErrors}
             \cup {Returned(LogText(0, 0)), Returned(LogText(3, 1))},
      c \in {[raised |-> Exc(m), stdout |-> None] : m \in SandboxErrors}
             \cup {Returned(out) : out \in CsvStdouts} }

CollectInit ==
  /\ LifecycleInit
  /\ ManagerIdle
  /\ ParallelIdle
  /\ args \in Readbacks
  /\ result = None

\* self._collect_timeseries_metrics()
Collect ==
  /\ result = None
  /\ result' = _collect_timeseries_metrics(args, 0)
  /\ UNCHANGED << args, lifecycle_vars, manager_vars, parallel_vars >>

CollectNext == Collect

CollectSpec == CollectInit /\ [][CollectNext]_vars

\* ------------------------------------------------ _fallback_analysis alone
\* largest error count of the metrics handed to the fallback analysis
MaxErrorCount == 11

\* peaks at, just below and just above the two thresholds, and an idle run
PeakSamples ==
  {0} \cup { Pct(t) + d : t \in {MediumPct, HighPct}, d \in {-1, 0, 1} }

FallbackInputs ==
  { [scenario |-> "cpu_spike",
     metrics |-> [timeline |-> tl, cpu_peak |-> c, memory_peak |-> m,
                  error_count |-> e, recovery_time_seconds |-> None,
                  logs |-> LogText(e, 0), timestamp |-> 0]] :
      tl \in { << >>, << [time_offset |-> 0, cpu |-> Pct(70), memory |-> Pct(90),
                           error_count |-> 0] >> },
      c \in PeakSamples, m \in PeakSamples, e \in 0..MaxErrorCount }

FallbackInit ==
  /\ LifecycleInit
  /\ ManagerIdle
  /\ ParallelIdle
  /\ args \in FallbackInputs
  /\ result = None

\* self._fallback_analysis(scenario, metrics)
Fallback ==
  /\ result = None
  /\ result' = _fallback_analysis(args.scenario, args.metrics)
  /\ UNCHANGED << args, lifecycle_vars, manager_vars, parallel_vars >>

FallbackNext == Fallback

FallbackSpec == FallbackInit /\ [][FallbackNext]_vars

\* ---------------------------------------------- run_parallel_experiments
\* largest num_instances
MaxInstances == 2

ParallelInit ==
  /\ LifecycleInit
  /\ ManagerIdle
  /\ FunctionIdle
  /\ \E num_instances \in 1..MaxInstances :
       instances = [i \in 0..(num_instances - 1) |->
                      [pc |-> "create_sandbox", instance_manager |-> NewManager,
                       metrics |-> None, future |-> None,
                       cleanup_invoked |-> FALSE]]
  /\ all_metrics = << >>
  /\ aggregate = None

\* instance i's run_single_instance ends with an exception, caught at line 403
InstanceFails(i, e) ==
  instances' = [instances EXCEPT
                  ![i].pc = "done", ![i].future = run_single_instance_except(e)]

\* lines 395-396
InstCreateSandbox(i) ==
  /\ instances[i].pc = "create_sandbox"
  /\ \E outs \in [1..max_retries -> AttemptOutcomes] :
       LET r == create_sandbox(instances[i].instance_manager, outs, i + 1)
       IN IF r.raised # None
          THEN InstanceFails(i, r.raised)
          ELSE instances' = [instances EXCEPT
                               ![i].pc = "deploy_test_app",
                               ![i].instance_manager = r.mgr]
  /\ UNCHANGED << all_metrics, aggregate, lifecycle_vars, manager_vars, function_vars >>

\* line 397
InstDeployTestApp(i) ==
  /\ instances[i].pc = "deploy_test_app"
  /\ \E out \in DeployOutcomes :
       LET r == deploy_test_app(instances[i].instance_manager, out)
       IN IF r.raised # None
          THEN InstanceFails(i, r.raised)
          ELSE instances' = [instances EXCEPT ![i].pc = "run_chaos_script"]
  /\ UNCHANGED << all_metrics, aggregate, lifecycle_vars, manager_vars, function_vars >>

\* line 400; the run's timestamp is the instance's own
InstRunChaosScript(i) ==
  /\ instances[i].pc = "run_chaos_script"
  /\ \E out \in ChaosOutcomes(i + 1) :
       LET r == run_chaos_script(instances[i].instance_manager, out)
       IN IF r.raised # None
          THEN InstanceFails(i, r.raised)
          ELSE instances' = [instances EXCEPT
                               ![i].pc = "cleanup", ![i].metrics = r.value]
  /\ UNCHANGED << all_metrics, aggregate, lifecycle_vars, manager_vars, function_vars >>

\* lines 402-405
InstCleanup(i) ==
  /\ instances[i].pc = "cleanup"
  /\ \E kill_ok \in BOOLEAN :
       LET r == cleanup(instances[i].instance_manager, kill_ok)
       IN IF r.raised # None
          THEN instances' = [instances EXCEPT
                               ![i].pc = "done",
                               ![i].cleanup_invoked = TRUE,
                               ![i].future = run_single_instance_except(r.raised)]
          ELSE instances' = [instances EXCEPT
                               ![i].pc = "done",
                               ![i].cleanup_invoked = TRUE,
                               ![i].instance_manager = r.mgr,
                               ![i].future = [raised |-> None,
                                              value |-> instances[i].metrics]]
  /\ UNCHANGED << all_metrics, aggregate, lifecycle_vars, manager_vars, function_vars >>

\* lines 411-414: as_completed hands over a finished future
AsCompleted(i) ==
  /\ aggregate = None
  /\ instances[i].pc = "done"
  /\ instances' = [instances EXCEPT ![i].pc = "collected"]
  /\ IF instances[i].future.raised # None
     THEN \* future.result() raises
          /\ aggregate' = [raised |-> instances[i].future.raised, value |-> None]
          /\ UNCHANGED all_metrics
     ELSE /\ all_metrics' = IF instances[i].future.value # None
                            THEN Append(all_metrics, instances[i].future.value)
                            ELSE all_metrics
          /\ UNCHANGED aggregate
  /\ UNCHANGED << lifecycle_vars, manager_vars, function_vars >>

\* mutant: the check of lines 416-417 left out
ReturnAggregate_Unchecked ==
  /\ aggregate = None
  /\ \A i \in DOMAIN instances : instances[i].pc = "collected"
  /\ aggregate' = [raised |-> None, value |-> _average_metrics(all_metrics)]
  /\ UNCHANGED << instances, all_metrics, lifecycle_vars, manager_vars, function_vars >>

\* lines 416-422
ReturnAggregate ==
  /\ aggregate = None
  /\ \A i \in DOMAIN instances : instances[i].pc = "collected"
  /\ aggregate' =
       IF all_metrics = << >>
       THEN [raised |-> Exc(Msg("All parallel experiments failed")), value |-> None]
       ELSE [raised |-> None, value |-> _average_metrics(all_metrics)]
  /\ UNCHANGED << instances, all_metrics, lifecycle_vars, manager_vars, function_vars >>

ParallelNext ==
  \/ \E i \in DOMAIN instances : InstCreateSandbox(i)
  \/ \E i \in DOMAIN instances : InstDeployTestApp(i)
  \/ \E i \in DOMAIN instances : InstRunChaosScript(i)
  \/ \E i \in DOMAIN instances : InstCleanup(i)
  \/ \E i \in DOMAIN instances : AsCompleted(i)
  \/ ReturnAggregate

ParallelSpec == ParallelInit /\ [][ParallelNext]_vars

\* ------------------------------------------------- _average_metrics alone
\* the sample a run can hold at each index: two choices per index, with time
\* offsets that differ between runs
SamplesAt(i) ==
  { Row(5 * (i - 1), 10 * i, 20 + i, i - 1),
    Row(5 * (i - 1) + 1, 10 * i + 25, 50 + i, i) }

\* the sampling files of runs that sampled len times
RECURSIVE SampledRows(_)
SampledRows(len) ==
  IF len = 0 THEN {<< >>}
  ELSE { Append(rows, row) : rows \in SampledRows(len - 1), row \in SamplesAt(len) }

\* the run results of runs that sampled 1..MaxRows times; run number n has
\* timestamp n
RunResults(n) ==
  { _collect_timeseries_metrics(
      [logs |-> Returned(LogText(n, 0)), csv |-> Returned(<< HeaderLine >> \o rows)], n) :
      rows \in UNION { SampledRows(len) : len \in 1..MaxRows } }

\* all_metrics: the results of runs 1..n, in the order collected
RECURSIVE CollectedLists(_)
CollectedLists(n) ==
  IF n = 0 THEN {<< >>}
  ELSE { Append(all, m) : all \in CollectedLists(n - 1), m \in RunResults(n) }

AverageInputs == UNION { CollectedLists(n) : n \in 1..MaxInstances }

AverageInit ==
  /\ LifecycleInit
  /\ ManagerIdle
  /\ ParallelIdle
  /\ args \in AverageInputs
  /\ result = None

\* self._average_metrics(all_metrics)
Average ==
  /\ result = None
  /\ result' = _average_metrics(args)
  /\ UNCHANGED << args, lifecycle_vars, manager_vars, parallel_vars >>

AverageNext == Average

AverageSpec == AverageInit /\ [][AverageNext]_vars

\* ------------------------------------------------ _get_chaos_script alone
\* scenario identifiers: the five known ones and three that are not
ScenarioIds == KnownScenarios \cup {"cpu_spike", "NETWORK_DELAY", ""}

\* config dicts: duration and intensity each present or absent
ScriptConfigs ==
  { EmptyDict }
  \cup { [duration |-> d] : d \in {10, DefaultDuration, 300} }
  \cup { [intensity |-> i] : i \in {"low", "medium", "high"} }
  \cup { [duration |-> d, intensity |-> i] :
           d \in {10, DefaultDuration, 300}, i \in {"low", "medium", "high"} }

ScriptInit ==
  /\ LifecycleInit
  /\ ManagerIdle
  /\ ParallelIdle
  /\ args \in { [scenario |-> sc, config |-> c] : sc \in ScenarioIds, c \in ScriptConfigs }
  /\ result = None

\* self._get_chaos_script(scenario, config)
GetChaosScript ==
  /\ result = None
  /\ result' = _get_chaos_script(args.scenario, args.config)
  /\ UNCHANGED << args, lifecycle_vars, manager_vars, parallel_vars >>

ScriptNext == GetChaosScript

ScriptSpec == ScriptInit /\ [][ScriptNext]_vars

\* ------------------------------------------------------------ properties
Terminal == {COMPLETED, FAILED}

\* the record under id is, before and after the step, that of one experiment
\* (a record is created once, with its created_at)
SameExperiment(id) ==
  /\ id \in DOMAIN experiments
  /\ id \in DOMAIN experiments'
  /\ experiments'[id]["created_at"] = experiments[id]["created_at"]

\* the step is the handler's last one and it failed
HandlerFails == pc # "idle" /\ pc' = "idle" /\ response'.code = 500

IsStatusResponse(r) == "kind" \in DOMAIN r /\ r.kind = "status"

IsResultsResponse(r) == "kind" \in DOMAIN r /\ r.kind = "results"

ForwardSteps ==
  { <<PENDING, RUNNING>>, <<RUNNING, ANALYZING>>, <<ANALYZING, COMPLETED>> }

FailingSteps == { <<s, FAILED>> : s \in {PENDING, RUNNING, ANALYZING} }

\* C1: an experiment's status changes only along PENDING -> RUNNING ->
\* ANALYZING -> COMPLETED or from a non-terminal status to FAILED; nothing
\* leaves COMPLETED or FAILED.
C1_StatusTransitions ==
  [][ \A id \in DOMAIN experiments :
        SameExperiment(id) =>
          \/ experiments'[id]["status"] = experiments[id]["status"]
          \/ << experiments[id]["status"], experiments'[id]["status"] >>
               \in ForwardSteps \cup FailingSteps ]_vars

C1_Witness ==
  \E a, b \in DOMAIN experiments :
    /\ experiments[a]["status"] = COMPLETED
    /\ experiments[b]["status"] = FAILED
    /\ "raw_metrics" \in DOMAIN experiments[b]

\* what str(e) can be for an exception raised at each place of the handler
ExpectedErrors(at) ==
  IF at = "create_sandbox"
  THEN { [text |-> "Sandbox creation failed after attempts",
          attempts |-> max_retries, cause |-> m] : m \in SandboxErrors }
  ELSE IF at \in {"deploy_test_app", "run_chaos_script"} THEN SandboxErrors
  ELSE IF at = "groq_analyzer" THEN ProviderErrors
  ELSE {}

\* C2: when a step of start_experiment raises, the record becomes FAILED with
\* error = str(e) and its progress unchanged, and get_experiment_status then
\* answers FAILED with that error as message.
C2_FailureRecorded ==
  [][ /\ HandlerFails =>
           LET old == experiments[experiment_id]
               new == experiments'[experiment_id]
           IN /\ new["status"] = FAILED
              /\ Get(new, "error", None) = response'.detail.text
              /\ Get(new, "error", None) \in ExpectedErrors(pc)
              /\ new["progress"] = old["progress"]
              /\ get_experiment_status(experiments', experiment_id) =
                   [code |-> 200, kind |-> "status", experiment_id |-> experiment_id,
                    status |-> FAILED, progress |-> old["progress"],
                    message |-> response'.detail.text]
      /\ (pc = "idle" /\ pc' = "idle" /\ IsStatusResponse(response')
            /\ response'.experiment_id \in DOMAIN experiments
            /\ experiments[response'.experiment_id]["status"] = FAILED) =>
           /\ response'.status = FAILED
           /\ response'.message # None
           /\ response'.message = Get(experiments[response'.experiment_id], "error", None)
    ]_vars

C2_Witness ==
  /\ pc = "idle"
  /\ IsStatusResponse(response)
  /\ response.status = FAILED
  /\ response.progress = 70
  /\ response.message \in ProviderErrors

C3_State ==
  \A id \in DOMAIN experiments :
    LET r == experiments[id]
    IN /\ r["progress"] \in 0..100
       /\ r["progress"] = 100 => r["status"] = COMPLETED
       /\ r["status"] = COMPLETED => r["progress"] = 100
       /\ r["status"] = FAILED => Get(r, "error", None) # None
       /\ pc = "idle" => r["status"] \in Terminal

\* C3: an experiment's progress never decreases and stays within 0..100; the
\* experiment ends COMPLETED with progress 100 or FAILED with an error; only
\* a COMPLETED experiment has progress 100.
C3_ProgressMonotone ==
  /\ []C3_State
  /\ [][ \A id \in DOMAIN experiments :
           SameExperiment(id) =>
             experiments'[id]["progress"] >= experiments[id]["progress"] ]_vars

C3_Witness ==
  \E a, b \in DOMAIN experiments :
    /\ experiments[a]["status"] = COMPLETED
    /\ experiments[a]["progress"] = 100
    /\ experiments[b]["status"] = FAILED
    /\ experiments[b]["progress"] = 50

\* C4: once a record is COMPLETED or FAILED, no later step changes any of its
\* fields.
C4_TerminalImmutable ==
  [][ \A id \in DOMAIN experiments :
        experiments[id]["status"] \in Terminal =>
          /\ id \in DOMAIN experiments'
          /\ experiments'[id] = experiments[id] ]_vars

\* C5: get_experiment_results answers NotReady (400), never results, for a
\* record whose status is not COMPLETED, whatever the record holds.
C5_NotReady ==
  /\ \A id \in DOMAIN experiments :
       experiments[id]["status"] # COMPLETED =>
         LET r == get_experiment_results(experiments, id)
         IN r.code = 400 /\ ~IsResultsResponse(r)
  /\ IsResultsResponse(response) =>
       experiments[response.experiment_id]["status"] = COMPLETED

C5_Witness ==
  /\ pc = "idle"
  /\ "code" \in DOMAIN response
  /\ response.code = 400
  /\ "raw_metrics" \in DOMAIN experiments[response.experiment_id]

\* C6: for a COMPLETED experiment get_experiment_results answers with a
\* well-formed result, the stored analysis having all required keys.
C6_CompletedWellFormed ==
  \A id \in DOMAIN experiments :
    experiments[id]["status"] = COMPLETED =>
      LET a == Get(experiments[id], "analysis", EmptyDict)
      IN /\ {"summary", "metrics", "severity", "recommendations"} \subseteq DOMAIN a
         /\ ExperimentMetricsValid(a["metrics"])
         /\ IsResultsResponse(get_experiment_results(experiments, id))

\* C7: analyze_experiment never raises; when the provider raises or its
\* output is not JSON the result is the fallback analysis built from the
\* collected metrics, and the experiment goes on to the dashboard step.
C7_AnalysisNeverRaises ==
  [][ pc = "analyze_experiment" =>
        /\ \A reply \in ProviderReplies(metrics) :
             LET r == analyze_experiment(request.scenario, metrics, reply)
             IN /\ r.raised = None
                /\ (reply.raised # None \/ ~reply.content.json) =>
                     /\ r.value = _fallback_analysis(request.scenario, metrics)
                     /\ r.value.metrics.cpu_peak = metrics.cpu_peak
                     /\ r.value.metrics.memory_peak = metrics.memory_peak
                     /\ r.value.metrics.error_count = metrics.error_count
                     /\ r.value.recommendations = FallbackRecommendations
        /\ pc' = "create_dashboard"
        /\ experiments'[experiment_id]["status"] = ANALYZING
        /\ experiments'[experiment_id]["analysis"] = analysis' ]_vars

C7_Witness ==
  /\ pc = "create_dashboard"
  /\ experiments[experiment_id]["status"] = ANALYZING
  /\ analysis = _fallback_analysis(request.scenario, metrics)

\* C8: no failure of the dashboard step makes the experiment FAILED: once the
\* analysis is stored, the handler ends only in COMPLETED.
C8_DashboardNeverFails ==
  [][ (pc \in {"create_dashboard", "cleanup", "completed"}) =>
        /\ experiments'[experiment_id]["status"] # FAILED
        /\ (pc = "create_dashboard" => pc' = "cleanup")
        /\ (pc' = "idle" => experiments'[experiment_id]["status"] = COMPLETED) ]_vars

C8_Witness ==
  \E id \in DOMAIN experiments :
    /\ experiments[id]["status"] = COMPLETED
    /\ "metrics" \notin DOMAIN experiments[id]["analysis"]

\* C9: the dashboard reference stored for an experiment is the created
\* dashboard's url or the placeholder built from the base url and the id; it
\* is never None for a COMPLETED experiment.
C9_DashboardReference ==
  \A id \in DOMAIN experiments :
    /\ "grafana_url" \in DOMAIN experiments[id] =>
         experiments[id]["grafana_url"] # None
    /\ experiments[id]["status"] = COMPLETED =>
         Get(experiments[id], "grafana_url", None) # None

\* C10: once run_chaos_script has returned metrics, cleanup has been invoked
\* by the time the experiment is COMPLETED or FAILED.
C10_CleanupBeforeTerminal ==
  (/\ experiment_id \in DOMAIN experiments
   /\ experiments[experiment_id]["status"] \in Terminal
   /\ metrics # None) => cleanup_invoked

\* the latest call on the manager was to method op
Called(op) == "op" \in DOMAIN last_call /\ last_call.op = op

\* the first attempt the provider answered with a sandbox (0: none)
FirstSuccess(outs) ==
  IF \E i \in 1..3 : outs[i].ok
  THEN CHOOSE i \in 1..3 : outs[i].ok /\ \A j \in 1..(i - 1) : ~outs[j].ok
  ELSE 0

\* C11: create_sandbox makes at most 3 attempts; it stops at the first
\* attempt that succeeds and returns that sandbox's id; when all fail it has
\* made exactly 3 attempts and raises an error carrying the third attempt's.
C11_CreateSandboxAttempts ==
  Called("create_sandbox") =>
    LET k == FirstSuccess(last_call.outs)
    IN /\ last_call.attempts \in 1..3
       /\ k # 0 =>
            /\ last_call.attempts = k
            /\ last_call.raised = None
            /\ last_call.value = handed_out
            /\ manager.sandbox = [sandbox_id |-> last_call.value]
       /\ k = 0 =>
            /\ last_call.attempts = 3
            /\ last_call.raised # None
            /\ Str(last_call.raised).cause = Str(last_call.outs[3].error)
            /\ last_call.value = None
            /\ manager.sandbox = None

C11_Witness ==
  /\ Called("create_sandbox")
  /\ FirstSuccess(last_call.outs) = 0
  /\ last_call.outs[1].error # last_call.outs[3].error
  /\ last_call.before.sandbox # None

\* C12: the sleeps of create_sandbox are 1 s after the first failure and 2 s
\* after the second, one per failed attempt that is followed by another
\* attempt; none follows the third failure and none precedes the first attempt.
C12_Backoff ==
  Called("create_sandbox") =>
    LET k == FirstSuccess(last_call.outs)
        failures == IF k = 0 THEN 3 ELSE k - 1
    IN last_call.waits = SubSeq(<< 1, 2 >>, 1, IF failures < 2 THEN failures ELSE 2)

C12_Witness ==
  /\ Called("create_sandbox")
  /\ FirstSuccess(last_call.outs) = 3
  /\ last_call.waits = << 1, 2 >>

\* C13: cleanup never raises, whether the manager holds no sandbox, the kill
\* succeeds or the kill fails; no experiment that reached the cleanup step
\* (progress 95) is FAILED.
C13_CleanupNeverRaises ==
  /\ pc = "cleanup" =>
       \A m \in {NewManager, e2b_manager}, kill_ok \in BOOLEAN :
         cleanup(m, kill_ok).raised = None
  /\ \A id \in DOMAIN experiments :
       experiments[id]["status"] = FAILED => experiments[id]["progress"] < 95

C13_Witness ==
  /\ pc = "idle"
  /\ experiment_id \in DOMAIN experiments
  /\ experiments[experiment_id]["status"] = COMPLETED
  /\ cleanup_invoked
  /\ sandbox_alive
  /\ e2b_manager.sandbox # None

\* C14: deploy_test_app and run_chaos_script on a manager that holds no
\* sandbox raise "Sandbox not created" at once: no command or file write is
\* issued and the manager is left as it was.
C14_InvalidState ==
  ((Called("deploy_test_app") \/ Called("run_chaos_script"))
     /\ last_call.before.sandbox = None) =>
    /\ last_call.raised = Exc(Msg("Sandbox not created"))
    /\ ~last_call.sandbox_used
    /\ manager = last_call.before

C14_Witness ==
  /\ Called("deploy_test_app")
  /\ last_call.before.sandbox = None
  /\ handed_out = 1

\* both read-back commands returned
ReadBack == args.logs.raised = None /\ args.csv.raised = None

\* the lines of the sampling file after its header
DataRows == IF args.csv.stdout = << >> THEN << >> ELSE Tail(args.csv.stdout)

\* a row of at least 4 fields: an integer, two numbers, an integer
WellFormedRow(line) ==
  /\ Len(line) >= 4
  /\ line[1].kind = "int"
  /\ line[2].kind \in {"int", "dec"}
  /\ line[3].kind \in {"int", "dec"}
  /\ line[4].kind = "int"

\* the samples of the well-formed rows, in the order of the file
ValidSamples ==
  LET rows == SelectSeq(DataRows, WellFormedRow)
  IN [i \in 1..Len(rows) |->
        [time_offset |-> IntOf(rows[i][1]), cpu |-> FloatOf(rows[i][2]),
         memory |-> FloatOf(rows[i][3]), error_count |-> IntOf(rows[i][4])]]

Highest(samples, field) ==
  CHOOSE m \in {samples[i][field] : i \in 1..Len(samples)} :
    \A i \in 1..Len(samples) : samples[i][field] <= m

\* C15: whatever lines the sampling file holds, the timeline returned is the
\* samples of its well-formed rows in their order, and the peaks are taken
\* over those samples only; a short or non-numeric row drops out alone.
C15_CorruptRowsSkipped ==
  (result # None /\ ReadBack) =>
    IF ValidSamples = << >>
    THEN result.timeline = PlaceholderTimeline
    ELSE /\ result.timeline = ValidSamples
         /\ result.cpu_peak = Highest(ValidSamples, "cpu")
         /\ result.memory_peak = Highest(ValidSamples, "memory")

C15_Witness ==
  /\ result # None
  /\ ReadBack
  /\ Len(DataRows) = 3
  /\ WellFormedRow(DataRows[1])
  /\ DataRows[2] # << >> /\ ~WellFormedRow(DataRows[2])
  /\ WellFormedRow(DataRows[3])
  /\ Len(result.timeline) = 2

\* C16: when collection yields no valid sample (no file, an empty file, a
\* header only, corrupt rows only, or a read-back command failing), the
\* metrics returned carry the 2-point placeholder timeline with cpu_peak 10.0
\* and memory_peak 25.0.
C16_PlaceholderWhenEmpty ==
  (result # None /\ (~ReadBack \/ ValidSamples = << >>)) =>
    /\ result.timeline =
         << [time_offset |-> 0, cpu |-> 500, memory |-> 2000, error_count |-> 0],
            [time_offset |-> 30, cpu |-> 1000, memory |-> 2500, error_count |-> 0] >>
    /\ result.cpu_peak = 1000
    /\ result.memory_peak = 2500

\* the offset of the first sample past 10 s with cpu < 30 and memory < 50
\* whose predecessor had cpu > 50
RecoveryOf(samples) ==
  LET recovered == { i \in 2..Len(samples) :
                       /\ samples[i].time_offset > 10
                       /\ samples[i].cpu < 3000
                       /\ samples[i].memory < 5000
                       /\ samples[i - 1].cpu > 5000 }
  IN IF recovered = {} THEN None
     ELSE Num(samples[CHOOSE i \in recovered : \A j \in recovered : i <= j].time_offset)

\* C17: recovery_time_seconds is the offset of the first sample past 10 s
\* with cpu < 30 and memory < 50 whose immediately preceding sample had
\* cpu > 50, and None when there is none.
C17_RecoveryTime ==
  (result # None /\ ReadBack /\ ValidSamples # << >>) =>
    result.recovery_time_seconds = RecoveryOf(ValidSamples)

\* C18: the fallback analysis rates "high" iff error_count > 10 or a peak is
\* > 80, otherwise "medium" iff error_count > 5 or a peak is > 60, otherwise
\* "low"; a value exactly at a threshold does not cross it.
C18_FallbackSeverity ==
  result # None =>
    LET e == args.metrics.error_count
        c == args.metrics.cpu_peak
        m == args.metrics.memory_peak
    IN result.severity =
         IF e > 10 \/ c > 8000 \/ m > 8000 THEN "high"
         ELSE IF e > 5 \/ c > 6000 \/ m > 6000 THEN "medium"
         ELSE "low"

C18_Witness ==
  /\ result # None
  /\ args.metrics.error_count = 10
  /\ args.metrics.cpu_peak = 8000
  /\ args.metrics.memory_peak = 6001
  /\ result.severity = "medium"

\* C19: the timeline of the analysis stored for an experiment is the timeline
\* of its collected metrics, sample for sample, whether the analysis came
\* from the provider or from the fallback.
C19_TimelineEchoed ==
  \A id \in DOMAIN experiments :
    "analysis" \in DOMAIN experiments[id] =>
      /\ "timeline" \in DOMAIN experiments[id]["analysis"]
      /\ experiments[id]["analysis"]["timeline"] =
           experiments[id]["raw_metrics"]["timeline"]

\* the instances whose pipeline returned metrics
Succeeded ==
  { i \in DOMAIN instances :
      instances[i].future # None /\ instances[i].future.value # None }

RECURSIVE SumOver(_, _)
SumOver(S, field) ==
  IF S = {} THEN 0
  ELSE LET i == CHOOSE x \in S : TRUE
       IN instances[i].future.value[field] + SumOver(S \ {i}, field)

\* C20: an instance whose pipeline raises counts as "no result" and the
\* others go on; when run_parallel_experiments has ended and at least one
\* instance returned metrics, it returned the aggregate of exactly those
\* instances' metrics, in whatever order the instances ran and completed.
C20_PerInstanceIsolation ==
  /\ \A i \in DOMAIN instances :
       instances[i].future # None => instances[i].future.raised = None
  /\ (aggregate # None /\ Succeeded # {}) =>
       /\ aggregate.raised = None
       /\ aggregate.value.num_instances = Cardinality(Succeeded)
       /\ aggregate.value.num_instances \in 1..Cardinality(DOMAIN instances)
       /\ Len(all_metrics) = Cardinality(Succeeded)
       /\ { all_metrics[k] : k \in 1..Len(all_metrics) }
            = { instances[i].future.value : i \in Succeeded }
       /\ aggregate.value.cpu_peak =
            Round(SumOver(Succeeded, "cpu_peak"), Cardinality(Succeeded))
       /\ aggregate.value.memory_peak =
            Round(SumOver(Succeeded, "memory_peak"), Cardinality(Succeeded))
       /\ aggregate.value.error_count =
            Round(SumOver(Succeeded, "error_count"), Cardinality(Succeeded))

C20_Witness ==
  /\ aggregate # None
  /\ Cardinality(DOMAIN instances) = 2
  /\ Cardinality(Succeeded) = 1
  /\ instances[0].future.value = None
  /\ aggregate.value.num_instances = 1

\* C21: when every instance has failed, run_parallel_experiments raises
\* "All parallel experiments failed", it does so only once every instance's
\* future has been collected, and _average_metrics has produced nothing.
C21_AllInstancesFailed ==
  (aggregate # None /\ Succeeded = {}) =>
    /\ aggregate.raised = Exc(Msg("All parallel experiments failed"))
    /\ aggregate.value = None
    /\ all_metrics = << >>
    /\ \A i \in DOMAIN instances :
         instances[i].pc = "collected" /\ instances[i].future # None

C21_Witness ==
  /\ aggregate # None
  /\ Cardinality(DOMAIN instances) = MaxInstances
  /\ Succeeded = {}
  /\ aggregate.raised # None

\* the runs of args whose timeline has an index i
RunsWith(i) == { k \in 1..Len(args) : i <= Len(args[k]["timeline"]) }

RECURSIVE SumAt(_, _, _)
SumAt(S, i, field) ==
  IF S = {} THEN 0
  ELSE LET k == CHOOSE x \in S : TRUE
       IN args[k]["timeline"][i][field] + SumAt(S \ {k}, i, field)

\* v is the mean of the values of sum `total` over n runs, rounded to the
\* nearest unit of the field
IsRoundedMean(v, total, n) ==
  /\ 2 * (v * n - total) <= n
  /\ 2 * (total - v * n) <= n

\* C22: the averaged timeline is as long as the longest input timeline; its
\* point at index i holds the means of cpu, memory (to the hundredth) and
\* error count (to the unit) over exactly the runs that have an index i; and
\* where one run alone has an index i the point is that run's point.
C22_AveragedTimeline ==
  result # None =>
    /\ \A k \in 1..Len(args) : Len(args[k]["timeline"]) <= Len(result["timeline"])
    /\ \E k \in 1..Len(args) : Len(args[k]["timeline"]) = Len(result["timeline"])
    /\ \A i \in 1..Len(result["timeline"]) :
         /\ \A field \in {"cpu", "memory", "error_count"} :
              IsRoundedMean(result["timeline"][i][field],
                            SumAt(RunsWith(i), i, field), Cardinality(RunsWith(i)))
         /\ \A k \in RunsWith(i) :
              RunsWith(i) = {k} => result["timeline"][i] = args[k]["timeline"][i]

\* two runs, one with three samples and one with two
C22_Witness ==
  /\ result # None
  /\ Len(args) = 2
  /\ Len(args[1]["timeline"]) = 3
  /\ Len(args[2]["timeline"]) = 2
  /\ Len(result["timeline"]) = 3
  /\ result["timeline"][3] = args[1]["timeline"][3]
  /\ result["timeline"][2] # args[1]["timeline"][2]

\* the orders in which the collected results could have been appended
CollectionOrders(seq) ==
  { [k \in 1..Len(seq) |-> seq[f[k]]] :
      f \in { g \in [1..Len(seq) -> 1..Len(seq)] :
                \A a, b \in 1..Len(seq) : a # b => g[a] # g[b] } }

\* C23: the aggregate run_parallel_experiments returns is the same for every
\* order in which the successful instances' results could have been
\* collected.
C23_OrderIndependent ==
  (aggregate # None /\ aggregate.raised = None) =>
    \A other \in CollectionOrders(all_metrics) :
      _average_metrics(other) = aggregate.value

\* what _collect_timeseries_metrics substitutes for the samples and the log
\* when a read-back command raises
SubstitutedMetrics ==
  { CollectFailed(Exc(m), t) : m \in SandboxErrors, t \in 0..MaxExperiments }

\* C24: a failing remote command of the pipeline, the read-back included,
\* ends the attempt FAILED: no experiment is COMPLETED with the data
\* substituted for a read-back that failed.
C24_RemoteFailurePropagates ==
  \A id \in DOMAIN experiments :
    experiments[id]["status"] = COMPLETED =>
      experiments[id]["raw_metrics"] \notin SubstitutedMetrics

\* C25: when start_experiment hands its response back to the caller, the
\* experiment it names is still PENDING, RUNNING or ANALYZING.
C25_FireAndForget ==
  (response # None /\ "created_at" \in DOMAIN response) =>
    experiments[response.experiment_id]["status"] \notin Terminal

\* C26: get_experiment_status and get_experiment_results answer 404 for
\* exactly the ids that are not in the store, and a lookup, of a known or
\* an unknown id, leaves the store as it was.
C26_LookupsReadOnly ==
  /\ [](\A id \in ExperimentIds :
          /\ get_experiment_status(experiments, id).code = 404
               <=> id \notin DOMAIN experiments
          /\ get_experiment_results(experiments, id).code = 404
               <=> id \notin DOMAIN experiments)
  /\ [][(pc = "idle" /\ pc' = "idle") => experiments' = experiments]_vars

\* an unknown id has been looked up while the store holds a record
C26_Witness ==
  /\ pc = "idle"
  /\ experiments # EmptyDict
  /\ response # None
  /\ response.code = 404

\* C27: start_experiment creates its record under a key no record of the
\* store uses.
C27_FreshKey ==
  [][(pc = "idle" /\ pc' = "update_status") =>
       experiment_id' \notin DOMAIN experiments]_vars

\* the record under id is that of an experiment that has not ended
Unfinished(id) ==
  id \in DOMAIN experiments /\ experiments[id]["status"] \notin Terminal

\* C28: every started experiment reaches COMPLETED or FAILED: the only
\* record that is PENDING, RUNNING or ANALYZING is that of the handler under
\* way, a handler under way leads to the handler having returned, and when
\* no handler is under way every record is COMPLETED or FAILED.
C28_Termination ==
  /\ [](\A id \in ExperimentIds :
          Unfinished(id) => pc # "idle" /\ id = experiment_id)
  /\ (pc # "idle") ~> (pc = "idle")

\* an experiment whose provisioning used up its attempts has ended FAILED
C28_Witness ==
  /\ pc = "idle"
  /\ \E id \in DOMAIN experiments :
       /\ experiments[id]["status"] = FAILED
       /\ experiments[id]["progress"] = 10

\* the stages of a pipeline, as positions of the handler, in the order the
\* claim gives them; a stage that raises ends the handler
StageSteps ==
  { <<"idle", "update_status">>, <<"update_status", "create_sandbox">>,
    <<"create_sandbox", "deploy_test_app">>,
    <<"deploy_test_app", "run_chaos_script">>,
    <<"run_chaos_script", "analyzing">>, <<"analyzing", "groq_analyzer">>,
    <<"groq_analyzer", "analyze_experiment">>,
    <<"analyze_experiment", "create_dashboard">>,
    <<"create_dashboard", "cleanup">>, <<"cleanup", "completed">>,
    <<"completed", "idle">> }

\* the sandbox calls of the chaos stage in the claim's order: write the chaos
\* and sampling scripts, start the sampling script in the background, run the
\* chaos script, read back the log and the samples
ChaosStageOrder ==
  << "files.write chaos script", "chmod chaos script",
     "files.write monitor script", "chmod monitor script",
     "run monitor script in background", "run chaos script",
     "cat flask_app.log", "cat metrics_timeseries.csv" >>

\* the calls of log were made in the claim's order, each after the one
\* before it had returned
InStageOrder(log) ==
  /\ Len(log) <= Len(ChaosStageOrder)
  /\ \A j \in 1..Len(log) : log[j].command = ChaosStageOrder[j]
  /\ \A j \in 2..Len(log) : log[j - 1].returned

\* the stages that have returned when the handler is at a position
StagesDone ==
  /\ pc \in {"deploy_test_app", "run_chaos_script", "analyzing", "groq_analyzer",
              "analyze_experiment", "create_dashboard", "cleanup"} =>
       /\ e2b_manager # None /\ e2b_manager.sandbox # None
       /\ "sandbox_id" \in DOMAIN Rec
  /\ pc \in {"run_chaos_script", "analyzing", "groq_analyzer", "analyze_experiment",
              "create_dashboard", "cleanup", "completed"} =>
       Rec["progress"] >= 50
  /\ pc \in {"analyzing", "groq_analyzer", "analyze_experiment",
              "create_dashboard", "cleanup", "completed"} =>
       metrics # None /\ "raw_metrics" \in DOMAIN Rec
  /\ pc \in {"create_dashboard", "cleanup", "completed"} =>
       analysis # None /\ "analysis" \in DOMAIN Rec
  /\ pc \in {"cleanup", "completed"} => "grafana_url" \in DOMAIN Rec
  /\ pc = "completed" => cleanup_invoked
  /\ pc # "idle" => Rec["status"] # COMPLETED

\* C29: the handler moves from one stage to the next in the order provision,
\* deploy, chaos stage, analyze, publish dashboard, destroy sandbox, mark
\* COMPLETED, or ends; a stage is entered only with the products of the
\* stages before it; within the chaos stage the scripts are written before
\* the sampling script is started, the chaos script is run after that, and
\* the log and the samples are read back only after the chaos script has
\* returned; and the chaos stage returns to the handler, which then starts
\* the analysis, only when every one of its calls has returned.
C29_StageOrder ==
  /\ [][pc' # pc => (<< pc, pc' >> \in StageSteps \/ pc' = "idle")]_vars
  /\ []StagesDone
  /\ [](pc = "run_chaos_script" =>
          \A out \in ChaosOutcomes(now) :
            LET r == run_chaos_script(e2b_manager, out)
                Issued(command) ==
                  \E j \in 1..Len(r.commands) : r.commands[j].command = command
            IN /\ InStageOrder(r.commands)
               /\ Issued("cat flask_app.log") =>
                    \E j \in 1..Len(r.commands) :
                      /\ r.commands[j].command = "run chaos script"
                      /\ r.commands[j].returned
               /\ r.raised = None =>
                    \A j \in 1..Len(r.commands) : r.commands[j].returned
               /\ r.raised # None => ~r.commands[Len(r.commands)].returned)

\* C30: for a scenario identifier that is none of the five known ones
\* _get_chaos_script does not raise and returns the network_delay script
\* for the configuration's duration (60 when the configuration has none),
\* which is what it returns for network_delay with that configuration.
C30_UnknownScenario ==
  (result # None /\ args.scenario \notin KnownScenarios) =>
    /\ result.raised = None
    /\ result.value.template = "network_delay"
    /\ result.value.duration =
         (IF "duration" \in DOMAIN args.config THEN args.config.duration ELSE 60)
    /\ result = _get_chaos_script("network_delay", args.config)

C30_Witness ==
  /\ result # None
  /\ args.scenario = "cpu_spike"
  /\ args.config = [duration |-> 300, intensity |-> "high"]
  /\ result.value = ScriptText("network_delay", 300)

\* C31: when the sampling file holds at least one valid sample, cpu_peak is
\* the largest cpu value of the returned timeline and memory_peak the
\* largest memory value of it (values in hundredths, the precision both are
\* rounded to).
C31_PeaksAreMaxima ==
  (result # None /\ ReadBack /\ ValidSamples # << >>) =>
    /\ result.cpu_peak = Highest(result.timeline, "cpu")
    /\ result.memory_peak = Highest(result.timeline, "memory")

\* three samples whose largest cpu value is the first one's
C31_Witness ==
  /\ result # None
  /\ ReadBack
  /\ Len(result.timeline) = 3
  /\ result.timeline[1].cpu > result.timeline[2].cpu
  /\ result.timeline[2].cpu > result.timeline[3].cpu
  /\ result.cpu_peak = result.timeline[1].cpu

\* the sampling file with the error counter of every row of four or more
\* fields replaced by e
WithCounters(stdout, e) ==
  [k \in 1..Len(stdout) |->
     IF k > 1 /\ Len(stdout[k]) >= 4
     THEN [stdout[k] EXCEPT ![4] = IntField(e)]
     ELSE stdout[k]]

\* C32: error_count is the number of ERROR and Exception markers of the log
\* read back, and a collection with the same log and any other sampled
\* error counters returns the same error_count.
C32_ErrorCountFromLog ==
  (result # None /\ ReadBack) =>
    /\ result.error_count =
         args.logs.stdout["ERROR"] + args.logs.stdout["Exception"]
    /\ \A e \in 0..MaxErrorCount :
         _collect_timeseries_metrics(
           [args EXCEPT !.csv.stdout = WithCounters(@, e)], 0).error_count
           = result.error_count

\* a log with 4 markers and a sample whose counter says 3
C32_Witness ==
  /\ result # None
  /\ ReadBack
  /\ args.logs.stdout = LogText(3, 1)
  /\ \E i \in 1..Len(ValidSamples) : ValidSamples[i].error_count = 3
  /\ result.error_count = 4

\* C33: in every timeline returned by a collection the time offsets are
\* non-negative and strictly increasing from one sample to the next.
C33_OffsetsIncrease ==
  (result # None /\ ReadBack) =>
    /\ \A i \in 1..Len(result.timeline) : result.timeline[i].time_offset >= 0
    /\ \A i \in 2..Len(result.timeline) :
         result.timeline[i - 1].time_offset < result.timeline[i].time_offset

\* the attempts of the latest create_sandbox call that raised
FailedAttempts ==
  { i \in 1..last_call.attempts : ~last_call.outs[i].ok }

\* C34: after a failed attempt of create_sandbox a handle the manager held
\* has been killed, once, and cleared; whether that kill raised or not, a
\* create_sandbox that fails reports the last attempt's creation error and
\* leaves the manager without a handle, and one that succeeds after a
\* failure leaves it with the new handle only.
C34_FailedAttemptTornDown ==
  Called("create_sandbox") =>
    /\ last_call.kills =
         (IF FailedAttempts # {} /\ last_call.before.sandbox # None
          THEN << last_call.before.sandbox >> ELSE << >>)
    /\ last_call.raised # None =>
         /\ manager.sandbox = None
         /\ FailedAttempts = 1..max_retries
         /\ last_call.raised.exception.cause =
              Str(last_call.outs[max_retries].error)
    /\ last_call.raised = None =>
         /\ manager.sandbox # None
         /\ manager.sandbox.sandbox_id = last_call.value
         /\ manager.sandbox # last_call.before.sandbox

\* create_sandbox failed on a manager that held a handle, and the kill of
\* that handle raised
C34_Witness ==
  /\ Called("create_sandbox")
  /\ last_call.raised # None
  /\ last_call.before.sandbox # None
  /\ ~last_call.outs[1].kill_ok
  /\ last_call.kills # << >>
  /\ manager.sandbox = None

\* C35: on a manager with a sandbox, deploy_test_app raises exactly when an
\* install, write or start command fails, and then raises that command's
\* exception; a health probe that raises or whose output lacks the healthy
\* marker leaves the call returning normally.
C35_ProbeNotFatal ==
  (Called("deploy_test_app") /\ last_call.before.sandbox # None) =>
    /\ last_call.raised = last_call.out.fail
    /\ (last_call.out.fail = None /\ last_call.out.probe # "healthy") =>
         last_call.raised = None
    /\ manager = last_call.before

\* a deployment whose commands succeeded and whose probe raised
C35_Witness ==
  /\ Called("deploy_test_app")
  /\ last_call.before.sandbox # None
  /\ last_call.out.fail = None
  /\ last_call.out.probe = "raise"
  /\ last_call.raised = None

\* C36: when the handler's experiment is COMPLETED or FAILED, a sandbox the
\* handler provisioned and that is still alive at the provider has had
\* cleanup invoked on it, also when deployment or the chaos run raised.
C36_ProvisionedIsDestroyed ==
  (/\ experiment_id \in DOMAIN experiments
   /\ experiments[experiment_id]["status"] \in Terminal
   /\ sandbox_alive) => cleanup_invoked

\* C37: once run_parallel_experiments has returned or raised, every instance
\* whose manager holds a provisioned sandbox has invoked cleanup on it, the
\* instances whose deployment or chaos run raised included.
C37_InstancesDestroyed ==
  aggregate # None =>
    \A i \in DOMAIN instances :
      instances[i].instance_manager.sandbox # None => instances[i].cleanup_invoked

\* the sum of the runs' values of a top-level field
RECURSIVE SumOf(_, _)
SumOf(S, field) ==
  IF S = {} THEN 0
  ELSE LET k == CHOOSE x \in S : TRUE
       IN args[k][field] + SumOf(S \ {k}, field)

\* C38 as stated: the aggregate's cpu_peak is at least every cpu value of the
\* averaged timeline and its memory_peak at least every memory value, also
\* when the runs' timelines differ in length.
C38_PeakBoundsTimeline ==
  result # None =>
    \A i \in 1..Len(result["timeline"]) :
      /\ result["cpu_peak"] >= result["timeline"][i]["cpu"]
      /\ result["memory_peak"] >= result["timeline"][i]["memory"]

\* C38 amended: cpu_peak and memory_peak are the means of the runs' peaks to
\* the hundredth, and they are at least the averaged cpu and memory value at
\* every index at which every run has a sample.
C38_PeakBoundsSharedIndexes ==
  result # None =>
    /\ IsRoundedMean(result["cpu_peak"], SumOf(1..Len(args), "cpu_peak"), Len(args))
    /\ IsRoundedMean(result["memory_peak"], SumOf(1..Len(args), "memory_peak"),
                     Len(args))
    /\ \A i \in 1..Len(result["timeline"]) :
         RunsWith(i) = 1..Len(args) =>
           /\ result["cpu_peak"] >= result["timeline"][i]["cpu"]
           /\ result["memory_peak"] >= result["timeline"][i]["memory"]

\* two runs of different lengths whose averaged timeline exceeds the mean of
\* peaks past the end of the shorter run and not before it
C38_Witness ==
  /\ result # None
  /\ Len(args) = 2
  /\ Len(args[1]["timeline"]) = 1
  /\ Len(args[2]["timeline"]) = 3
  /\ result["cpu_peak"] >= result["timeline"][1]["cpu"]
  /\ result["cpu_peak"] < result["timeline"][3]["cpu"]
  /\ result["memory_peak"] < result["timeline"][3]["memory"]

\* C39: in every state of every experiment record, PENDING goes with progress
\* 0, RUNNING with a progress in {10, 30, 50, 70}, ANALYZING with one in
\* {70, 85, 95}, COMPLETED with progress 100 and with raw metrics, analysis
\* and dashboard reference recorded, FAILED with a progress below 100 and an
\* error recorded; and only a FAILED record holds an error.
C39_StatusProgressCoupled ==
  \A id \in DOMAIN experiments :
    LET r == experiments[id]
    IN /\ r["status"] = PENDING => r["progress"] = 0
       /\ r["status"] = RUNNING => r["progress"] \in {10, 30, 50, 70}
       /\ r["status"] = ANALYZING => r["progress"] \in {70, 85, 95}
       /\ r["status"] = COMPLETED =>
            /\ r["progress"] = 100
            /\ Get(r, "raw_metrics", None) # None
            /\ Get(r, "analysis", None) # None
            /\ Get(r, "grafana_url", None) # None
       /\ r["status"] = FAILED =>
            /\ r["progress"] < 100
            /\ Get(r, "error", None) # None
       /\ "error" \in DOMAIN r => r["status"] = FAILED

\* C40: after cleanup has returned the manager holds no sandbox handle,
\* whether the kill returned or raised; a cleanup that follows finds no handle
\* to kill, and a deploy_test_app or run_chaos_script that follows raises the
\* invalid-state error.
C40_CleanupClearsHandle ==
  /\ [](Called("cleanup") => manager.sandbox = None)
  /\ [][ Called("cleanup") =>
           /\ last_call'.op = "cleanup" => last_call'.before.sandbox = None
           /\ last_call'.op \in {"deploy_test_app", "run_chaos_script"} =>
                last_call'.raised = Exc(Msg("Sandbox not created")) ]_vars

====
